---- MODULE Spec2Model ----
(***************************************************************************)
(* Model of the EPEXMonitor platform of homebridge-epex (src/platform.ts): *)
(* the polling loop, the ENTSO-E response parser and the current-slot      *)
(* lookup.                                                                 *)
(*                                                                         *)
(* Representation.                                                         *)
(*  - A JavaScript number is a record [nan, v]; NaN is the record with     *)
(*    nan = TRUE.  Arithmetic propagates NaN as IEEE arithmetic does.      *)
(*  - Prices are fixed-point integers in hundredths: the text "45.5" is    *)
(*    the number 4550, and the literal 100 of the source is 10000.         *)
(*  - Instants are milliseconds since 2025-01-06T00:00:00.000Z.            *)
(*  - A text that is absent (undefined) is the marker Undef; the empty     *)
(*    text is "".  Both are falsy, as in JavaScript.                       *)
(*  - An XML child that xml2js (explicitArray: false) delivers as a bare   *)
(*    object, as an array, or not at all is a record [enc, items] with     *)
(*    enc in {"bare", "list", "absent"}.                                   *)
(***************************************************************************)
EXTENDS Integers, Sequences, FiniteSets, TLC

(***************************************************************************)
(* JavaScript values                                                       *)
(***************************************************************************)
Undefined == [undefined |-> TRUE]
Null == [null |-> TRUE]
Undef == "<undefined>"

Num(n) == [nan |-> FALSE, v |-> n]
NaN == [nan |-> TRUE, v |-> 0]
IsNaN(x) == x.nan

Plus(a, b) == IF a.nan \/ b.nan THEN NaN ELSE Num(a.v + b.v)
Minus(a, b) == IF a.nan \/ b.nan THEN NaN ELSE Num(a.v - b.v)
Times(a, b) == IF a.nan \/ b.nan THEN NaN ELSE Num(a.v * b.v)
\* a <= b and a > b on numbers: every comparison with NaN is false
LessEq(a, b) == ~a.nan /\ ~b.nan /\ a.v <= b.v
Greater(a, b) == ~a.nan /\ ~b.nan /\ a.v > b.v

\* x / 10 (the model's prices are multiples of 0.1, so the quotient is exact
\* in hundredths)
DivideBy10(x) == IF x.nan THEN NaN ELSE Num(x.v \div 10)

\* `text || dflt` on a text
OrText(s, dflt) == IF s = Undef \/ s = "" THEN dflt ELSE s
\* `value || dflt` on a number or undefined: undefined, 0 and NaN are falsy
OrNumber(x, dflt) ==
    IF x = Undefined THEN dflt
    ELSE IF x.nan \/ x.v = 0 THEN dflt
    ELSE x

\* String.prototype.trim on the texts of the model
Trim(s) == IF s = " " THEN "" ELSE s

\* parseInt(text, 10) on the texts of the model
ParseInt(s) ==
    CASE s = "0" -> Num(0)
      [] s = "1" -> Num(1)
      [] s = "2" -> Num(2)
      [] s = "3" -> Num(3)
      [] s = "4" -> Num(4)
      [] OTHER -> NaN

\* parseFloat(text) on the texts of the model, in hundredths
ParseFloat(s) ==
    CASE s = "0" -> Num(0)
      [] s = "50.0" -> Num(5000)
      [] s = "45.5" -> Num(4550)
      [] s = "-3.0" -> Num(-300)
      [] OTHER -> NaN

\* new Date(text).getTime() on the texts of the model
ParseDate(s) ==
    CASE s = "2025-01-06T00:00Z" -> Num(0)
      [] s = "2025-01-06T01:00Z" -> Num(3600000)
      [] OTHER -> NaN

(***************************************************************************)
(* The response document                                                   *)
(***************************************************************************)
Absent == [enc |-> "absent", items |-> <<>>]
Bare(x) == [enc |-> "bare", items |-> <<x>>]
List(xs) == [enc |-> "list", items |-> xs]

\* `Array.isArray(x) ? x : []`: a bare object is dropped
AsArrayBareDropped(f) ==
    IF f.enc = "list" THEN f.items ELSE <<>>

\* Array.isArray(x) ? x : [x]
AsArray(f) ==
    IF f.enc = "list" THEN f.items
    ELSE IF f.enc = "bare" THEN <<f.items[1]>>
    ELSE <<Undefined>>

(***************************************************************************)
(* parseAllTimeslots                                                       *)
(***************************************************************************)
Throw == [threw |-> TRUE, slots |-> <<>>]
Return(s) == [threw |-> FALSE, slots |-> s]

\* lines 207-208 with the resolution ignored: every point is an hour
MinutesPerSlotHourly(per) == 60

\* lines 207-208
MinutesPerSlot(per) ==
    IF OrText(per.resolution, "PT60M") = "PT15M" THEN 15 ELSE 60

\* lines 217-227: the slot of one point of a period
PointSlot(per, p) ==
    LET rawPos == Minus(ParseInt(OrText(p.position, "1")), Num(1))
        rawPrice == ParseFloat(OrText(p.amount, "0"))
        price == IF IsNaN(rawPrice) THEN Num(0) ELSE rawPrice
        dtStart == ParseDate(per.start)
        slotStart ==
            Plus(dtStart, Times(Times(rawPos, Num(MinutesPerSlot(per))), Num(60000)))
    IN  [start |-> slotStart, price |-> price]

\* the period loop with a throw for the `continue` of line 203
PeriodSlotsAborting(per) ==
    IF per = Undefined THEN Throw
    ELSE IF per.start = Undef \/ per.start = "" THEN Throw
    ELSE LET points == AsArray(per.Point)
         IN  IF \E i \in 1..Len(points) : points[i] = Undefined
             THEN Throw
             ELSE Return([i \in 1..Len(points) |-> PointSlot(per, points[i])])

\* lines 198-229: the slots one period appends; reading a property of an
\* undefined period or point is a TypeError
PeriodSlots(per) ==
    IF per = Undefined THEN Throw
    ELSE IF per.start = Undef \/ per.start = "" THEN Return(<<>>)
    ELSE LET points == AsArray(per.Point)
         IN  IF \E i \in 1..Len(points) : points[i] = Undefined
             THEN Throw
             ELSE Return([i \in 1..Len(points) |-> PointSlot(per, points[i])])

RECURSIVE ConcatPeriods(_)
ConcatPeriods(periodArray) ==
    IF periodArray = <<>> THEN Return(<<>>)
    ELSE LET head == PeriodSlots(Head(periodArray))
             rest == ConcatPeriods(Tail(periodArray))
         IN  IF head.threw \/ rest.threw THEN Throw
             ELSE Return(head.slots \o rest.slots)

\* lines 194-230
RECURSIVE ConcatSeries(_)
ConcatSeries(seriesArray) ==
    IF seriesArray = <<>> THEN Return(<<>>)
    ELSE LET head == ConcatPeriods(AsArray(Head(seriesArray).Period))
             rest == ConcatSeries(Tail(seriesArray))
         IN  IF head.threw \/ rest.threw THEN Throw
             ELSE Return(head.slots \o rest.slots)

\* line 233: the comparator; Array.prototype.sort reads a NaN result as +0
CompareStart(a, b) ==
    LET d == Minus(a.start, b.start) IN IF d.nan THEN 0 ELSE d.v

\* an insertion that puts x before the elements that compare equal to it: an
\* unstable sort
RECURSIVE InsertBeforeEqual(_, _)
InsertBeforeEqual(x, sorted) ==
    IF sorted = <<>> THEN <<x>>
    ELSE IF CompareStart(Head(sorted), x) >= 0 THEN <<x>> \o sorted
    ELSE <<Head(sorted)>> \o InsertBeforeEqual(x, Tail(sorted))

\* insert x after every element that does not compare greater than it
RECURSIVE InsertSorted(_, _)
InsertSorted(x, sorted) ==
    IF sorted = <<>> THEN <<x>>
    ELSE IF CompareStart(Head(sorted), x) > 0 THEN <<x>> \o sorted
    ELSE <<Head(sorted)>> \o InsertSorted(x, Tail(sorted))

\* line 233 left out: the slots stay in encounter order
SortSlotsSkipped(s) == s

\* line 233: Array.prototype.sort is stable
RECURSIVE SortSlots(_)
SortSlots(s) ==
    IF s = <<>> THEN <<>>
    ELSE InsertSorted(s[Len(s)], SortSlots(SubSeq(s, 1, Len(s) - 1)))

\* parseAllTimeslots without the logging loop of lines 237-243, whose
\* toISOString call is what rejects an invalid slot start
parseAllTimeslotsUnlogged(xmlData) ==
    IF ~xmlData.wellFormed THEN Throw
    ELSE IF xmlData.TimeSeries.enc = "absent" THEN Return(<<>>)
    ELSE LET acc == ConcatSeries(AsArray(xmlData.TimeSeries))
         IN  IF acc.threw THEN Throw ELSE Return(SortSlots(acc.slots))

\* lines 177-247.  parseStringPromise rejects a document that is not
\* well-formed; Date.prototype.toISOString (line 239) throws a RangeError on
\* an invalid Date.
parseAllTimeslots(xmlData) ==
    IF ~xmlData.wellFormed THEN Throw
    ELSE IF xmlData.TimeSeries.enc = "absent" THEN Return(<<>>)
    ELSE LET acc == ConcatSeries(AsArray(xmlData.TimeSeries))
             allTimeslots == SortSlots(acc.slots)
         IN  IF acc.threw THEN Throw
             ELSE IF \E i \in 1..Len(allTimeslots) : IsNaN(allTimeslots[i].start)
                  THEN Throw
                  ELSE Return(allTimeslots)

(***************************************************************************)
(* Bounds and input sets                                                   *)
(***************************************************************************)
\* polls started in one behaviour (the initial one and the timer's)
MaxPolls == 2
\* clock steps in one behaviour
MaxClockSteps == 3
\* points of one period in the documents of ParseSpec
MaxPoints == 2

ClockStep == 5 * 60 * 1000

UUIDs == {"uuid-PriceMonitor1", "uuid-cached"}

Point(pos, amt) == [position |-> pos, amount |-> amt]
Period(start, res, pts) == [start |-> start, resolution |-> res, Point |-> pts]
Series(periods) == [Period |-> periods]
Document(ts) == [wellFormed |-> TRUE, TimeSeries |-> ts]
Malformed == [wellFormed |-> FALSE, TimeSeries |-> Absent]
NoDocument == [wellFormed |-> FALSE, TimeSeries |-> Absent, none |-> TRUE]

\* the responses a poll of Spec can receive
PollDocuments ==
    { Malformed,
      Document(Absent),
      Document(Bare(Series(Bare(Period("2025-01-06T00:00Z", "PT15M",
          List(<<Point("1", "50.0"), Point("2", "45.5")>>)))))),
      Document(Bare(Series(Bare(Period("2025-01-06T01:00Z", Undef,
          Bare(Point(Undef, "-3.0"))))))),
      Document(Bare(Series(Bare(Period("2025-01-06T00:00Z", "PT60M",
          Bare(Point("abc", "50.0"))))))) }

ApiKeys == {Undef, "", " ", "token"}
MaxPrices == {Undefined, Num(0), Num(4200)}
MaxRates == {Undefined, Num(2000)}
RefreshIntervals == {Undefined, Num(5), Num(20)}

\* the documents of ParseSpec, each child encoded as xml2js encodes it: a
\* single child bare, several children as a list
SeqsUpTo(S, n) == UNION {[1..k -> S] : k \in 0..n}
Natural(xs) ==
    IF xs = <<>> THEN Absent ELSE IF Len(xs) = 1 THEN Bare(xs[1]) ELSE List(xs)

PositionText(i) ==
    CASE i = 1 -> "1" [] i = 2 -> "2" [] i = 3 -> "3" [] OTHER -> "4"
AmountText(i) == IF i % 2 = 1 THEN "50.0" ELSE "45.5"

\* one period, with every mixture of present, missing and unparseable fields
RichPoints == [position : {Undef, "abc", "1", "2"}, amount : {Undef, "abc", "45.5"}]
RichDocuments ==
    { Document(Bare(Series(Bare(Period(s, r, Natural(pts)))))) :
        s \in {Undef, "garbage", "2025-01-06T00:00Z"},
        r \in {Undef, "PT15M", "P1D"},
        pts \in SeqsUpTo(RichPoints, MaxPoints) }

\* several periods and series of well-formed points at positions 1..k
CleanPeriods ==
    { Period(s, r, Natural([i \in 1..k |-> Point(PositionText(i), AmountText(i))])) :
        s \in {Undef, "2025-01-06T00:00Z", "2025-01-06T01:00Z"},
        r \in {"PT15M", "PT60M"},
        k \in 1..MaxPoints }
CleanDocuments ==
    { Document(Bare(Series(Natural(ps)))) :
        ps \in [1..1 -> CleanPeriods] \cup [1..2 -> CleanPeriods] }
    \cup
    { Document(List(<<Series(Bare(p)), Series(Bare(q))>>)) :
        p \in CleanPeriods, q \in CleanPeriods }
    \cup
    { Malformed, Document(Absent), Document(Bare(Series(Absent))) }

\* one period of well-formed points, with the single children of the levels
\* in L encoded as one-element lists
Encoded(level, L, xs) ==
    IF Len(xs) = 1 /\ level \notin L THEN Bare(xs[1]) ELSE List(xs)
ListedDocuments ==
    { Document(Encoded("series", L, <<Series(Encoded("period", L,
          <<Period(s, r, Encoded("point", L,
              [i \in 1..k |-> Point(PositionText(i), AmountText(i))]))>>))>>)) :
        L \in SUBSET {"series", "period", "point"} \ {{}},
        s \in {Undef, "2025-01-06T00:00Z", "2025-01-06T01:00Z"},
        r \in {"PT15M", "PT60M"},
        k \in 1..MaxPoints }

Minutes(m) == m * 60 * 1000
RichTimes == {Minutes(0), Minutes(20)}
CleanTimes == {Minutes(m) : m \in {0, 5, 15, 50, 60, 75, 90, 120, 200}}

(***************************************************************************)
(* The platform                                                            *)
(***************************************************************************)
VARIABLES
    config,            \* the PlatformConfig (never written)
    phase,             \* "constructed" until didFinishLaunching has run
    accessories,       \* the accessories Map, as its keys in insertion order
    accessoryHandlers, \* the keys of the accessoryHandlers Map
    allSlots,
    currentPrice,
    timer,             \* the interval timer of startPolling
    origin,            \* the day, counted from 1970-01-01, the clock counts from
    now,               \* the clock (Date.now()), in ms since 00:00Z of `origin`
    steps,             \* clock steps taken
    polls,             \* the pollEPEXPrice invocations, in start order
    requests,          \* HTTP requests issued (axios.get calls)
    sink,              \* the updatePrice calls each accessory received
    instances,         \* EPEXPlatformAccessory objects constructed, per UUID
    registered,        \* accessories given to registerPlatformAccessories
    lastWriter         \* the poll that wrote currentPrice last (0: none)

vars == <<config, origin, phase, accessories, accessoryHandlers, allSlots, currentPrice,
          timer, now, steps, polls, requests, sink, instances, registered,
          lastWriter>>

Range(s) == {s[i] : i \in 1..Len(s)}

IdlePoll == [pc |-> "idle", trigger |-> "none", startedAt |-> 0, window |-> Null,
             data |-> NoDocument, outcome |-> "none", result |-> Null]
\* window: the periodStart and periodEnd of the request (lines 85-94)
\* result, once a poll has published: the price and slots it wrote, the slot
\* its loop selected (Null on the missing-key path) and the instant it read

Started == {id \in 1..MaxPolls : polls[id].pc # "idle"}
InFlight == {id \in 1..MaxPolls : polls[id].pc \in {"fetching", "parsing"}}

\* lines 28-30
getCurrentPrice == currentPrice

\* lines 255-267: the state updateAccessories leaves from the state st; each
\* handler is given getCurrentPrice() as st has it (line 265)
updateAccessories(st) ==
    [st EXCEPT
        !.accessoryHandlers = @ \cup Range(accessories),
        !.instances = [u \in UUIDs |->
            IF u \in Range(accessories) \ st.accessoryHandlers
            THEN st.instances[u] + 1 ELSE st.instances[u]],
        !.sink = [u \in UUIDs |->
            IF u \in Range(accessories) THEN Append(st.sink[u], st.currentPrice)
            ELSE st.sink[u]]]

\* lines 31-33 with the assignment left out
setCurrentPriceDropped(st, price) == st

\* lines 31-33
setCurrentPrice(st, price) == [st EXCEPT !.currentPrice = price]

\* the written part of the state, as a record
Current ==
    [allSlots |-> allSlots, currentPrice |-> currentPrice,
     accessoryHandlers |-> accessoryHandlers, instances |-> instances,
     sink |-> sink, polls |-> polls, requests |-> requests,
     registered |-> registered, lastWriter |-> lastWriter]

Becomes(st) ==
    /\ allSlots' = st.allSlots
    /\ currentPrice' = st.currentPrice
    /\ accessoryHandlers' = st.accessoryHandlers
    /\ instances' = st.instances
    /\ sink' = st.sink
    /\ polls' = st.polls
    /\ requests' = st.requests
    /\ registered' = st.registered
    /\ lastWriter' = st.lastWriter

\* line 77 without the trim: a blank key passes for a key
ApiKeyMissingUntrimmed == config.apiKey = Undef \/ config.apiKey = ""

\* line 77
ApiKeyMissing ==
    config.apiKey = Undef \/ config.apiKey = "" \/ Trim(config.apiKey) = ""

\* line 79
MissingKeyPrice == OrNumber(config.max_price, Num(10000))

\* the poll `id` ends with `outcome`
Finish(st, id, outcome) ==
    [st EXCEPT !.polls[id].pc = "done", !.polls[id].outcome = outcome]

\* the poll `id` ends having published st.currentPrice
Published(st, id, outcome, slot) ==
    [Finish(st, id, outcome) EXCEPT
        !.polls[id].result = [price |-> st.currentPrice, slots |-> st.allSlots,
                              slot |-> slot, at |-> now],
        !.lastWriter = id]

(***************************************************************************)
(* Dates.  A Date is its time value, milliseconds since 1970-01-01T00:00Z;  *)
(* the clock of the model counts from 2025-01-06T00:00Z.                   *)
(***************************************************************************)
MsPerDay == 24 * 60 * 60 * 1000

\* a Date of time value day * MsPerDay + ms, 0 <= ms < MsPerDay
Date(day, ms) == [day |-> day, ms |-> ms]
\* new Date(date.getTime() + delta), line 151
AddMs(date, delta) ==
    Date(date.day + (date.ms + delta) \div MsPerDay, (date.ms + delta) % MsPerDay)

\* the day number of a civil date, month counted from 0 as Date.UTC counts
DayFromCivil(year, month, date) ==
    LET y == IF month <= 1 THEN year - 1 ELSE year
        era == y \div 400
        yoe == y - era * 400
        mp == IF month > 1 THEN month - 2 ELSE month + 10
        doy == (153 * mp + 2) \div 5 + date - 1
        doe == yoe * 365 + yoe \div 4 - yoe \div 100 + doy
    IN  era * 146097 + doe - 719468
\* line 149: Date.UTC(year, month, date, 0, 0, 0)
DateUTC(year, month, date) == Date(DayFromCivil(year, month, date), 0)

\* the day ParseDate counts from, 2025-01-06
ClockOrigin == DayFromCivil(2025, 0, 6)

\* line 148: new Date() when the clock reads t
NewDate(t) == AddMs(Date(origin, 0), t)

\* the civil date of day doy (from 0, March 1st) of the year y that starts in
\* March
CivilOfYearDay(y, doy) ==
    CHOOSE civil \in
        { [year |-> IF mp < 10 THEN y ELSE y + 1,
           month |-> IF mp < 10 THEN mp + 2 ELSE mp - 10,
           date |-> doy - (153 * mp + 2) \div 5 + 1] :
            mp \in {(5 * doy + 2) \div 153} } : TRUE
\* the civil date of day doe of the 400-year era
CivilOfEraDay(era, doe) ==
    CHOOSE civil \in
        { CivilOfYearDay(era * 400 + yoe,
                         doe - (365 * yoe + yoe \div 4 - yoe \div 100)) :
            yoe \in {(doe - doe \div 1460 + doe \div 36524 - doe \div 146096)
                     \div 365} } : TRUE
\* getUTCFullYear, getUTCMonth (from 0), getUTCDate
CivilFromDate(d) ==
    CHOOSE civil \in
        { CivilOfEraDay(z \div 146097, z % 146097) : z \in {d.day + 719468} } : TRUE
getUTCHours(d) == d.ms \div (60 * 60 * 1000)
getUTCMinutes(d) == (d.ms % (60 * 60 * 1000)) \div (60 * 1000)

\* the decimal digits of n in a field of the given width, zero-padded
Digits(n, width) == [i \in 1..width |-> (n \div 10 ^ (width - i)) % 10]

\* lines 163-171: toISOString, the '-' and ':' removed, the first 13
\* characters kept, the 'T' removed: "YYYYMMDDHHmm" as its twelve digits
\* (years 0000 to 9999; toISOString writes other years with a sign and six
\* digits)
toEntsoeDateString(d) ==
    CHOOSE partial \in
        { Digits(civil.year, 4) \o Digits(civil.month + 1, 2) \o Digits(civil.date, 2)
          \o Digits(getUTCHours(d), 2) \o Digits(getUTCMinutes(d), 2) :
            civil \in {CivilFromDate(d)} } : TRUE

\* the window with 24 hours for the 48 of line 151
getEntsoeWindowFor24h(t) ==
    CHOOSE window \in
        { [start |-> toEntsoeDateString(todayMidnight),
           end |-> toEntsoeDateString(AddMs(todayMidnight, 24 * 60 * 60 * 1000))] :
            todayMidnight \in { DateUTC(civil.year, civil.month, civil.date) :
                                  civil \in {CivilFromDate(NewDate(t))} } } : TRUE

\* lines 145-158, called when the clock reads t: the one window over
\* todayMidnight, the Date.UTC of the UTC year, month and date of new Date()
getEntsoeWindowFor48h(t) ==
    CHOOSE window \in
        { [start |-> toEntsoeDateString(todayMidnight),
           end |-> toEntsoeDateString(AddMs(todayMidnight, 48 * 60 * 60 * 1000))] :
            todayMidnight \in { DateUTC(civil.year, civil.month, civil.date) :
                                  civil \in {CivilFromDate(NewDate(t))} } } : TRUE

\* lines 75-101: pollEPEXPrice up to its first suspension
pollBegin(st, id, trigger) ==
    LET begun == [st EXCEPT !.polls[id].trigger = trigger,
                            !.polls[id].startedAt = now]
    IN  IF ApiKeyMissing
        THEN Published(
                 updateAccessories(setCurrentPrice(begun, MissingKeyPrice)),
                 id, "fallback", Null)
        ELSE [begun EXCEPT !.polls[id].pc = "fetching",
                           !.polls[id].window = getEntsoeWindowFor48h(now),
                           !.requests = @ + 1]

\* lines 101, 139-141: the response arrives, or axios.get rejects (network
\* error, non-2xx status)
httpReturn(st, id, ok, document) ==
    IF ok
    THEN [st EXCEPT !.polls[id].pc = "parsing", !.polls[id].data = document]
    ELSE Finish(st, id, "error")

\* the loop with `slot.start < now` for `slot.start <= now` in line 121
RECURSIVE SlotLoopStrict(_, _, _, _)
SlotLoopStrict(slots, t, i, currentSlot) ==
    IF i > Len(slots) THEN currentSlot
    ELSE IF i = Len(slots) THEN slots[i]
    ELSE IF ~LessEq(t, slots[i].start) /\ ~slots[i].start.nan
            /\ Greater(slots[i + 1].start, t) THEN slots[i]
    ELSE SlotLoopStrict(slots, t, i + 1, currentSlot)

\* lines 112-125: the loop from index i on (1-based), with the value
\* currentSlot has so far
RECURSIVE SlotLoop(_, _, _, _)
SlotLoop(slots, t, i, currentSlot) ==
    IF i > Len(slots) THEN currentSlot
    ELSE IF i = Len(slots) THEN slots[i]
    ELSE IF LessEq(slots[i].start, t) /\ Greater(slots[i + 1].start, t) THEN slots[i]
    ELSE SlotLoop(slots, t, i + 1, currentSlot)

\* lines 110-125
CurrentSlot(slots, t) ==
    SlotLoop(slots, t, 1, IF Len(slots) > 0 THEN slots[1] ELSE Null)

\* lines 127-130
SlotOrFallback(slot, t) ==
    IF slot = Null
    THEN [start |-> t, price |-> OrNumber(config.max_rate, Num(10000))]
    ELSE slot

\* line 135 without the division
PublishedPriceUndivided(slot) == slot.price

\* line 135
PublishedPrice(slot) == DivideBy10(slot.price)

\* lines 105-141: parseAllTimeslots returns or throws, and the rest of the
\* poll runs without suspension
parseReturn(st, id) ==
    LET parsed == parseAllTimeslots(st.polls[id].data)
        stored == [st EXCEPT !.allSlots = parsed.slots]
        currentSlot == SlotOrFallback(CurrentSlot(parsed.slots, Num(now)), Num(now))
        price == PublishedPrice(currentSlot)
    IN  IF parsed.threw THEN Finish(st, id, "error")
        ELSE IF IsNaN(currentSlot.start) THEN Finish(stored, id, "error")
        ELSE Published(updateAccessories(setCurrentPrice(stored, price)),
                       id, "published", currentSlot)

\* line 62
Interval == OrNumber(config.refreshInterval, Num(15)).v * 60 * 1000

\* lines 61-70
startPolling(st) == pollBegin(st, 1, "initial")

\* lines 281-306
discoverDevices(st) ==
    LET uuid == "uuid-PriceMonitor1"
    IN  [st EXCEPT
            !.instances[uuid] = @ + 1,
            !.registered = IF uuid \in Range(accessories) THEN @ ELSE @ \cup {uuid}]

(***************************************************************************)
(* Actions                                                                 *)
(***************************************************************************)
Init ==
    /\ config \in [apiKey : ApiKeys, max_price : MaxPrices, max_rate : MaxRates,
                   refreshInterval : RefreshIntervals]
    /\ phase = "constructed"
    /\ accessories = <<>>
    /\ accessoryHandlers = {}
    /\ allSlots = <<>>
    /\ currentPrice = Null
    /\ timer = [set |-> FALSE, interval |-> 0, nextFire |-> 0]
    /\ origin = ClockOrigin
    /\ now = 0
    /\ steps = 0
    /\ polls = [id \in 1..MaxPolls |-> IdlePoll]
    /\ requests = 0
    /\ sink = [u \in UUIDs |-> <<>>]
    /\ instances = [u \in UUIDs |-> 0]
    /\ registered = {}
    /\ lastWriter = 0

\* lines 273-276: Homebridge restores the cached accessories before launch
configureAccessory ==
    /\ phase = "constructed"
    /\ \E u \in UUIDs :
          accessories' = IF u \in Range(accessories) THEN accessories
                         ELSE Append(accessories, u)
    /\ UNCHANGED <<config, origin, phase, accessoryHandlers, allSlots, currentPrice, timer,
                   now, steps, polls, requests, sink, instances, registered,
                   lastWriter>>

\* lines 50-56: the didFinishLaunching callback
didFinishLaunching ==
    /\ phase = "constructed"
    /\ phase' = "launched"
    /\ Becomes(discoverDevices(startPolling(Current)))
    /\ timer' = [set |-> TRUE, interval |-> Interval, nextFire |-> now + Interval]
    /\ UNCHANGED <<config, origin, accessories, now, steps>>

\* the timer as it would fire had the catch block of line 139 cleared it
timerTickUnlessFailed ==
    /\ timer.set
    /\ \A id \in 1..MaxPolls : polls[id].outcome # "error"
    /\ now = timer.nextFire
    /\ Cardinality(Started) < MaxPolls
    /\ \E st \in {pollBegin(Current, Cardinality(Started) + 1, "timer")} :
          Becomes(st)
    /\ timer' = [timer EXCEPT !.nextFire = @ + timer.interval]
    /\ UNCHANGED <<config, origin, phase, accessories, now, steps>>

\* lines 65-67: the interval timer fires
timerTick ==
    /\ timer.set
    /\ now = timer.nextFire
    /\ Cardinality(Started) < MaxPolls
    /\ \E st \in {pollBegin(Current, Cardinality(Started) + 1, "timer")} :
          Becomes(st)
    /\ timer' = [timer EXCEPT !.nextFire = @ + timer.interval]
    /\ UNCHANGED <<config, origin, phase, accessories, now, steps>>

\* time passes; a due timer fires before the clock moves past it
clockAdvance ==
    /\ steps < MaxClockSteps
    /\ timer.set /\ Cardinality(Started) < MaxPolls => now + ClockStep <= timer.nextFire
    /\ now' = now + ClockStep
    /\ steps' = steps + 1
    /\ UNCHANGED <<config, origin, phase, accessories, accessoryHandlers, allSlots,
                   currentPrice, timer, polls, requests, sink, instances,
                   registered, lastWriter>>

\* line 101: axios.get resolves with a document
httpResponse ==
    \E id \in 1..MaxPolls, document \in PollDocuments :
        /\ polls[id].pc = "fetching"
        /\ Becomes(httpReturn(Current, id, TRUE, document))
        /\ UNCHANGED <<config, origin, phase, accessories, timer, now, steps>>

\* line 101: axios.get rejects
httpFailure ==
    \E id \in 1..MaxPolls :
        /\ polls[id].pc = "fetching"
        /\ Becomes(httpReturn(Current, id, FALSE, NoDocument))
        /\ UNCHANGED <<config, origin, phase, accessories, timer, now, steps>>

\* lines 105-141
parseDone ==
    \E id \in 1..MaxPolls :
        /\ polls[id].pc = "parsing"
        /\ Becomes(parseReturn(Current, id))
        /\ UNCHANGED <<config, origin, phase, accessories, timer, now, steps>>

Next ==
    \/ configureAccessory
    \/ didFinishLaunching
    \/ timerTick
    \/ clockAdvance
    \/ httpResponse
    \/ httpFailure
    \/ parseDone

Spec == Init /\ [][Next]_vars

(***************************************************************************)
(* LiveSpec: the platform with a key, under the scheduling of the event    *)
(* loop: a due timer fires, time passes, and a parse that has its document *)
(* runs to its end.  Nothing makes a pending HTTP request return.          *)
(***************************************************************************)
LiveInit ==
    /\ Init
    /\ config.apiKey = "token"
    /\ config.max_price = Undefined
    /\ config.max_rate = Undefined
    /\ config.refreshInterval \in {Undefined, Num(5)}

\* parseDone is enabled exactly when a poll is parsing, and it alone ends a
\* parse; its weak fairness, WF_vars(parseDone), is spelled out over these
ParsePending == \E id \in 1..MaxPolls : polls[id].pc = "parsing"
ParseEnds == \E id \in 1..MaxPolls : polls[id].pc = "parsing" /\ polls'[id].pc = "done"

LiveSpec ==
    /\ LiveInit
    /\ [][Next]_vars
    /\ WF_vars(timerTick)
    /\ WF_vars(clockAdvance)
    /\ ([]<>(~ParsePending) \/ []<><<ParseEnds>>_vars)

(***************************************************************************)
(* ParseSpec: one poll of a launched platform, over a wide set of response *)
(* documents and instants.  The initial states are the states in which the *)
(* response of the initial poll has just arrived.                          *)
(***************************************************************************)
InitialState ==
    [allSlots |-> <<>>, currentPrice |-> Null, accessoryHandlers |-> {},
     instances |-> [u \in UUIDs |-> 0], sink |-> [u \in UUIDs |-> <<>>],
     polls |-> [id \in 1..MaxPolls |-> IdlePoll], requests |-> 0,
     registered |-> {}, lastWriter |-> 0]

ParseInit ==
    /\ config \in [apiKey : {"token"}, max_price : {Undefined}, max_rate : MaxRates,
                   refreshInterval : {Undefined}]
    /\ phase = "launched"
    /\ accessories \in {<<"uuid-cached">>, <<"uuid-PriceMonitor1", "uuid-cached">>}
    /\ steps = 0
    /\ \E document \in RichDocuments \cup CleanDocuments \cup ListedDocuments :
          /\ origin = ClockOrigin
          /\ now \in IF document \in RichDocuments THEN RichTimes ELSE CleanTimes
          /\ timer = [set |-> TRUE, interval |-> Interval, nextFire |-> now + Interval]
          /\ \E st \in {httpReturn(discoverDevices(startPolling(InitialState)),
                                     1, TRUE, document)} :
                 /\ allSlots = st.allSlots
                 /\ currentPrice = st.currentPrice
                 /\ accessoryHandlers = st.accessoryHandlers
                 /\ instances = st.instances
                 /\ sink = st.sink
                 /\ polls = st.polls
                 /\ requests = st.requests
                 /\ registered = st.registered
                 /\ lastWriter = st.lastWriter

ParseNext == parseDone

ParseSpec == ParseInit /\ [][ParseNext]_vars

(***************************************************************************)
(* WindowSpec: the platform is launched at an instant of a wide set (day,  *)
(* month and year ends, leap days, the first and the last millisecond of a *)
(* day) and its initial poll computes the request window.                  *)
(***************************************************************************)
WindowDays ==
    { <<1970, 1, 1>>, <<1999, 12, 31>>, <<2000, 1, 1>>, <<2000, 2, 28>>,
      <<2000, 2, 29>>, <<2000, 3, 1>>, <<2023, 2, 27>>, <<2023, 2, 28>>,
      <<2024, 2, 28>>, <<2024, 2, 29>>, <<2024, 12, 30>>, <<2024, 12, 31>>,
      <<2025, 1, 5>>, <<2025, 1, 6>>, <<2025, 1, 7>>, <<2025, 1, 30>>,
      <<2025, 1, 31>>, <<2025, 3, 30>>, <<2025, 4, 29>>, <<2025, 4, 30>>,
      <<2025, 10, 26>>, <<2025, 12, 31>>, <<2026, 1, 1>>, <<2028, 2, 27>>,
      <<2028, 2, 29>>, <<2038, 1, 19>>, <<2099, 12, 31>>, <<2100, 2, 27>>,
      <<2100, 2, 28>>, <<2100, 3, 1>>, <<2400, 2, 29>>, <<9999, 12, 29>> }
WindowOffsets ==
    { 0, 1, 60 * 1000 - 1, 60 * 60 * 1000, 12 * 60 * 60 * 1000 + 34 * 60 * 1000 + 56789,
      MsPerDay - 1 }
\* the platform as constructed on a day of WindowDays, at a time of day of
\* WindowOffsets
WindowInit ==
    /\ config = [apiKey |-> "token", max_price |-> Undefined, max_rate |-> Undefined,
                 refreshInterval |-> Undefined]
    /\ phase = "constructed"
    /\ accessories = <<>>
    /\ origin \in {DayFromCivil(day[1], day[2] - 1, day[3]) : day \in WindowDays}
    /\ now \in WindowOffsets
    /\ timer = [set |-> FALSE, interval |-> 0, nextFire |-> 0]
    /\ steps = 0
    /\ allSlots = InitialState.allSlots
    /\ currentPrice = InitialState.currentPrice
    /\ accessoryHandlers = InitialState.accessoryHandlers
    /\ instances = InitialState.instances
    /\ sink = InitialState.sink
    /\ polls = InitialState.polls
    /\ requests = InitialState.requests
    /\ registered = InitialState.registered
    /\ lastWriter = InitialState.lastWriter

WindowNext == didFinishLaunching

WindowSpec == WindowInit /\ [][WindowNext]_vars

(***************************************************************************)
(* Claims                                                                  *)
(***************************************************************************)
Done(id) == polls[id].pc = "done"
FetchFailed(id) == Done(id) /\ polls[id].outcome = "error" /\ polls[id].data = NoDocument
ParseThrew(id) == Done(id) /\ polls[id].outcome = "error" /\ polls[id].data # NoDocument

\* the fallback price of the configuration: max_price, 100 when none is set
ConfiguredFallback ==
    IF config.max_price \in {Undefined, Num(0)} THEN Num(10000) ELSE config.max_price

KeyConfigured == config.apiKey \notin {Undef, "", " "}

\* C1: a poll whose fetch succeeds and whose parse yields no slot publishes
\* the configured fallback price (max_price, default 100), the value the
\* missing-key path publishes
C1_EmptyParsePublishesFallback ==
    \A id \in 1..MaxPolls :
        Done(id) /\ polls[id].outcome = "published" /\ polls[id].result.slots = <<>>
        => polls[id].result.price = ConfiguredFallback

\* C2: after a poll whose fetch failed, with no price resolved by any poll so
\* far, getCurrentPrice is the configured fallback price, not null
C2_FailedFetchPublishesFallback ==
    \A id \in 1..MaxPolls :
        FetchFailed(id) /\ lastWriter = 0 => getCurrentPrice = ConfiguredFallback

\* C3: with the apiKey missing, empty or blank, a poll issues no HTTP request,
\* sets currentPrice to max_price (100 when max_price is unset or 0) and calls
\* updatePrice with that value on every accessory, all in the step that starts it
C3_MissingKeyStep ==
    \A id \in 1..MaxPolls :
        polls[id].pc = "idle" /\ polls'[id].pc # "idle" /\ ~KeyConfigured
        => /\ requests' = requests
           /\ polls'[id].pc = "done"
           /\ currentPrice' = ConfiguredFallback
           /\ \A u \in Range(accessories) : sink'[u] = Append(sink[u], ConfiguredFallback)
C3_MissingKeyFallsBack == [][C3_MissingKeyStep]_vars

C3_Witness ==
    /\ config.apiKey = " "
    /\ config.max_price = Num(4200)
    /\ Done(2)
    /\ Len(accessories) = 2
    /\ \A u \in UUIDs : sink[u] = <<Num(4200), Num(4200)>>

\* C4: the step in which a poll's fetch or parse throws leaves currentPrice
\* and allSlots as they were and calls updatePrice on no accessory
C4_ThrowStep ==
    \A id \in 1..MaxPolls :
        ~Done(id) /\ Done(id)' /\ polls'[id].outcome = "error"
        => /\ currentPrice' = currentPrice
           /\ allSlots' = allSlots
           /\ sink' = sink
C4_FailedPollChangesNothing == [][C4_ThrowStep]_vars

C4_Witness ==
    /\ ParseThrew(2)
    /\ polls[1].outcome = "published"
    /\ allSlots # <<>>
    /\ getCurrentPrice = polls[1].result.price
    /\ \E u \in UUIDs : Len(sink[u]) = 1

\* C6: a timer-triggered poll starts at least 15 minutes after every poll
\* started before it (exactly 15 minutes after the previous one when
\* refreshInterval is unset)
C6_IntervalAtLeast15Minutes ==
    \A id \in 2..MaxPolls :
        polls[id].trigger = "timer"
        => /\ polls[id].startedAt - polls[id - 1].startedAt >= Minutes(15)
           /\ config.refreshInterval = Undefined
              => polls[id].startedAt - polls[id - 1].startedAt = Minutes(15)

\* C8: at most one pollEPEXPrice invocation is in flight
C8_AtMostOnePollInFlight == Cardinality(InFlight) <= 1

\* C9: with no poll in flight, currentPrice and allSlots are the result of the
\* most recently started poll among those that published
Succeeded == {id \in 1..MaxPolls : Done(id) /\ polls[id].outcome # "error"}
C9_LatestStartedPollWins ==
    InFlight = {} /\ Succeeded # {}
    => LET latest == CHOOSE id \in Succeeded : \A other \in Succeeded : other <= id
       IN  /\ currentPrice = polls[latest].result.price
           /\ allSlots = polls[latest].result.slots

StrictlyIncreasing(slots) ==
    \A i \in 1..Len(slots) - 1 :
        /\ ~slots[i].start.nan /\ ~slots[i + 1].start.nan
        /\ slots[i].start.v < slots[i + 1].start.v

\* C5: on a slot sequence with strictly increasing starts the loop of a poll
\* selects the slot i with slots[i].start <= now < slots[i+1].start, and the
\* last slot when now >= the last slot's start
C5_LoopSelectsContainingSlot ==
    \A id \in 1..MaxPolls :
        Done(id) /\ polls[id].outcome = "published" /\ polls[id].result.slots # <<>>
        /\ StrictlyIncreasing(polls[id].result.slots)
        => LET slots == polls[id].result.slots
               at == polls[id].result.at
               n == Len(slots)
           IN  /\ \A i \in 1..n - 1 :
                     slots[i].start.v <= at /\ at < slots[i + 1].start.v
                     => polls[id].result.slot = slots[i]
               /\ at >= slots[n].start.v => polls[id].result.slot = slots[n]

C5_Witness ==
    /\ Done(1) /\ polls[1].outcome = "published"
    /\ Len(allSlots) >= 3
    /\ StrictlyIncreasing(allSlots)
    /\ allSlots[2].start.v < now /\ now < allSlots[3].start.v
    /\ polls[1].result.slot = allSlots[2]

\* C7: after a poll that parsed a non-empty slot sequence, currentPrice is the
\* selected slot's price divided by 10 and every accessory of the accessories
\* map received exactly that value in an updatePrice call of this poll
C7_PublishesTenthOfSlotPrice ==
    \A id \in 1..MaxPolls :
        Done(id) /\ polls[id].outcome = "published" /\ polls[id].result.slots # <<>>
        /\ lastWriter = id
        => /\ \E i \in 1..Len(allSlots) : polls[id].result.slot = allSlots[i]
           /\ ~currentPrice.nan
           /\ currentPrice.v * 10 = polls[id].result.slot.price.v
           /\ \A u \in Range(accessories) :
                 /\ Len(sink[u]) = Cardinality(Succeeded)
                 /\ sink[u][Len(sink[u])] = currentPrice

\* the end-to-end scenario of the specification: 45.5 at 01:30 publishes 4.55
C7_Witness ==
    /\ Done(1) /\ polls[1].outcome = "published"
    /\ now = Minutes(90)
    /\ Len(allSlots) = 2
    /\ allSlots[2] = [start |-> Num(Minutes(60)), price |-> Num(4550)]
    /\ currentPrice = Num(455)
    /\ Len(accessories) = 2
    /\ \A u \in UUIDs : sink[u] = <<Num(455)>>

\* what the claim resolves a point to: position 1 and price 0 for a missing
\* or unparseable field
ClaimedPosition(p) ==
    CASE p.position = "2" -> 2 [] p.position = "3" -> 3 [] p.position = "4" -> 4
      [] OTHER -> 1
ClaimedPrice(p) ==
    CASE p.amount = "50.0" -> 5000 [] p.amount = "45.5" -> 4550 [] OTHER -> 0
ClaimedSlot(per, p) ==
    [start |-> Num(ParseDate(per.start).v
                   + (ClaimedPosition(p) - 1)
                     * (IF per.resolution = "PT15M" THEN 15 ELSE 60) * 60000),
     price |-> Num(ClaimedPrice(p))]

\* a document of one series and one period that has a valid start and points
OnePeriod(d) ==
    /\ d # NoDocument /\ d.wellFormed
    /\ d.TimeSeries.enc = "bare"
    /\ d.TimeSeries.items[1].Period.enc = "bare"
    /\ ~ParseDate(d.TimeSeries.items[1].Period.items[1].start).nan
    /\ d.TimeSeries.items[1].Period.items[1].Point.enc # "absent"
PeriodOf(d) == d.TimeSeries.items[1].Period.items[1]

\* C10: a point with a missing or unparseable amount yields price 0, one with
\* a missing or unparseable position yields position 1, and the parse neither
\* throws nor returns a slot with a NaN start or price
C10_JunkFieldsResolveToDefaults ==
    \A id \in 1..MaxPolls :
        Done(id) /\ OnePeriod(polls[id].data)
        => /\ polls[id].outcome = "published"
           /\ LET per == PeriodOf(polls[id].data)
                  points == AsArray(per.Point)
                  slots == polls[id].result.slots
              IN  /\ Len(slots) = Len(points)
                  /\ \A i \in 1..Len(points) :
                        \E j \in 1..Len(slots) : slots[j] = ClaimedSlot(per, points[i])
                  /\ \A j \in 1..Len(slots) : ~slots[j].start.nan /\ ~slots[j].price.nan

\* the starts of s never decrease
NonDecreasing(s) ==
    \A i \in 1..Len(s) - 1 :
        /\ ~s[i].start.nan /\ ~s[i + 1].start.nan
        /\ s[i].start.v <= s[i + 1].start.v

\* C11, as claimed: allSlots is sorted ascending by start and no two of its
\* slots have the same start
C11_AllSlotsSortedAndUnique ==
    /\ NonDecreasing(allSlots)
    /\ \A i, j \in 1..Len(allSlots) : i # j => allSlots[i].start # allSlots[j].start

\* C11, amended: allSlots is sorted non-decreasing by start (slots of equal
\* start are kept)
C11_AllSlotsSorted == NonDecreasing(allSlots)

\* a later period that starts earlier, and two slots at 01:00
C11_Witness ==
    /\ Done(1) /\ polls[1].outcome = "published"
    /\ polls[1].data.TimeSeries.enc = "list"
    /\ PeriodOf(polls[1].data).start = "2025-01-06T01:00Z"
    /\ Len(allSlots) = 3
    /\ allSlots[1].start = Num(0)
    /\ allSlots[2].start = Num(Minutes(60))
    /\ allSlots[3].start = Num(Minutes(60))

\* the slots the claims expect of a document, in encounter order: series by
\* series, period by period, point by point, periods without a start skipped
RECURSIVE Flatten(_)
Flatten(ss) == IF ss = <<>> THEN <<>> ELSE Head(ss) \o Flatten(Tail(ss))
HasStart(per) == per.start \notin {Undef, ""}
DocumentPeriods(d) ==
    Flatten([k \in 1..Len(d.TimeSeries.items) |-> d.TimeSeries.items[k].Period.items])
EncounterSlots(d) ==
    LET periods == DocumentPeriods(d)
    IN  Flatten([k \in 1..Len(periods) |->
            IF HasStart(periods[k])
            THEN [i \in 1..Len(periods[k].Point.items) |->
                     ClaimedSlot(periods[k], periods[k].Point.items[i])]
            ELSE <<>>])
AtStart(s, t) == SelectSeq(s, LAMBDA x : x.start = t)

\* C12: a parse that returns yields one slot per point of every period that has
\* a start, non-decreasing by start, the slots of equal start in encounter order
C12_OneSlotPerPointStableOrder ==
    \A id \in 1..MaxPolls :
        Done(id) /\ polls[id].outcome = "published"
        => LET slots == polls[id].result.slots
               expected == EncounterSlots(polls[id].data)
           IN  /\ Len(slots) = Len(expected)
               /\ NonDecreasing(slots)
               /\ \A i \in 1..Len(expected) :
                     AtStart(slots, expected[i].start)
                       = AtStart(expected, expected[i].start)

\* 45.5 at 01:00 of the first series is met before 50.0 at 01:00 of the second
C12_Witness ==
    /\ Done(1) /\ polls[1].outcome = "published"
    /\ polls[1].data.TimeSeries.enc = "list"
    /\ allSlots = << [start |-> Num(0), price |-> Num(5000)],
                     [start |-> Num(Minutes(60)), price |-> Num(4550)],
                     [start |-> Num(Minutes(60)), price |-> Num(5000)] >>

\* the other encoding of a single child: bare for a one-element list, a
\* one-element list for bare
Swapped(f) ==
    IF f.enc = "bare" THEN List(f.items)
    ELSE IF f.enc = "list" /\ Len(f.items) = 1 THEN Bare(f.items[1])
    ELSE f
SwappedPoints(per, level) ==
    IF level = "point" THEN [per EXCEPT !.Point = Swapped(@)] ELSE per
SwappedPeriods(series, level) ==
    LET f == [series.Period EXCEPT
                 !.items = [k \in 1..Len(@) |-> SwappedPoints(@[k], level)]]
    IN  [Period |-> IF level = "period" THEN Swapped(f) ELSE f]
Reencoded(d, level) ==
    LET f == [d.TimeSeries EXCEPT
                 !.items = [k \in 1..Len(@) |-> SwappedPeriods(@[k], level)]]
    IN  [d EXCEPT !.TimeSeries = IF level = "series" THEN Swapped(f) ELSE f]

\* C13: at each level, the parse of a document and the parse of the document
\* with the single children of that level in the other encoding (bare, or a
\* one-element list) return the same slot sequence
C13_BareEqualsOneElementList ==
    \A id \in 1..MaxPolls :
        Done(id) /\ polls[id].data # NoDocument
        => \A level \in {"series", "period", "point"} :
              LET other == parseAllTimeslots(Reencoded(polls[id].data, level))
              IN  /\ other.threw <=> polls[id].outcome = "error"
                  /\ ~other.threw => other.slots = polls[id].result.slots

C13_Witness ==
    /\ Done(1) /\ polls[1].outcome = "published"
    /\ polls[1].data.TimeSeries.enc = "list"
    /\ Len(polls[1].data.TimeSeries.items) = 1
    /\ polls[1].data.TimeSeries.items[1].Period.enc = "list"
    /\ polls[1].data.TimeSeries.items[1].Period.items[1].Point.enc = "list"
    /\ Len(polls[1].data.TimeSeries.items[1].Period.items[1].Point.items) = 1
    /\ allSlots = <<[start |-> Num(Minutes(60)), price |-> Num(5000)]>>

\* a period the parse can turn into slots: a valid start, points, and no
\* unparseable position
Parseable(per) ==
    /\ ~ParseDate(per.start).nan
    /\ per.Point.enc # "absent"
    /\ \A i \in 1..Len(per.Point.items) :
          per.Point.items[i].position \in {Undef, "", "1", "2", "3", "4"}
HasPeriods(d) ==
    /\ d # NoDocument /\ d.wellFormed
    /\ \A k \in 1..Len(d.TimeSeries.items) : d.TimeSeries.items[k].Period.enc # "absent"

\* C14: a period without a start contributes no slot and does not abort the
\* parse: the parse returns exactly the slots of the other periods
C14_StartlessPeriodSkipped ==
    \A id \in 1..MaxPolls :
        /\ Done(id) /\ HasPeriods(polls[id].data)
        /\ \E k \in 1..Len(DocumentPeriods(polls[id].data)) :
              ~HasStart(DocumentPeriods(polls[id].data)[k])
        /\ \A k \in 1..Len(DocumentPeriods(polls[id].data)) :
              HasStart(DocumentPeriods(polls[id].data)[k])
              => Parseable(DocumentPeriods(polls[id].data)[k])
        => /\ polls[id].outcome = "published"
           /\ LET slots == polls[id].result.slots
                  others == EncounterSlots(polls[id].data)
              IN  /\ Len(slots) = Len(others)
                  /\ \A i \in 1..Len(others) :
                        \E j \in 1..Len(slots) : slots[j] = others[i]

\* a period without a start before a period of two points
C14_Witness ==
    /\ Done(1) /\ polls[1].outcome = "published"
    /\ HasPeriods(polls[1].data)
    /\ Len(DocumentPeriods(polls[1].data)) = 2
    /\ DocumentPeriods(polls[1].data)[1].start = Undef
    /\ DocumentPeriods(polls[1].data)[2].start = "2025-01-06T00:00Z"
    /\ Len(allSlots) = 2
    /\ allSlots[2] = [start |-> Num(Minutes(15)), price |-> Num(4550)]

\* C15: the slots a parse returns are the slots of the points: start =
\* periodStart + (position - 1) * d minutes with d = 15 for PT15M and 60 for
\* any other or missing resolution, and the point's price
C15_SlotStartAndPrice ==
    \A id \in 1..MaxPolls :
        Done(id) /\ polls[id].outcome = "published" /\ HasPeriods(polls[id].data)
        => LET per == DocumentPeriods(polls[id].data)
               slots == polls[id].result.slots
           IN  {slots[j] : j \in 1..Len(slots)}
                 = UNION { { [start |-> Num(ParseDate(per[k].start).v
                                  + (ClaimedPosition(per[k].Point.items[i]) - 1)
                                    * (IF per[k].resolution = "PT15M" THEN 15 ELSE 60)
                                    * 60 * 1000),
                              price |-> Num(ClaimedPrice(per[k].Point.items[i]))] :
                             i \in 1..Len(per[k].Point.items) } :
                           k \in {n \in 1..Len(per) : HasStart(per[n])} }

\* quarter-hour points at 00:00 and 00:15
C15_Witness ==
    /\ Done(1) /\ polls[1].outcome = "published"
    /\ OnePeriod(polls[1].data)
    /\ PeriodOf(polls[1].data).resolution = "PT15M"
    /\ allSlots = << [start |-> Num(0), price |-> Num(5000)],
                     [start |-> Num(Minutes(15)), price |-> Num(4550)] >>

\* the next timer tick lies within the clock steps left to the behaviour
TickWithinBounds ==
    timer.set /\ timer.nextFire - now <= (MaxClockSteps - steps) * ClockStep
\* a document whose parse returns
WillParse(d) ==
    /\ HasPeriods(d)
    /\ \A k \in 1..Len(DocumentPeriods(d)) :
          HasStart(DocumentPeriods(d)[k]) => Parseable(DocumentPeriods(d)[k])

\* C16: the timer, once set, stays set with its interval; after a poll has
\* ended in error the next tick starts a new poll; and a poll whose fetch
\* brought a document that parses publishes a price
C16_PollingSurvivesFailure ==
    /\ [][timer.set => timer'.set /\ timer'.interval = timer.interval]_vars
    /\ \A k \in 1..MaxPolls - 1 :
          (/\ Cardinality(Started) = k
           /\ \E id \in 1..MaxPolls : polls[id].outcome = "error"
           /\ TickWithinBounds)
          ~> (Cardinality(Started) > k)
    /\ \A id \in 1..MaxPolls :
          (polls[id].pc = "parsing" /\ WillParse(polls[id].data))
          ~> (polls[id].outcome = "published")

\* the first poll failed, the timer's poll published
C16_Witness ==
    /\ FetchFailed(1)
    /\ polls[2].trigger = "timer"
    /\ polls[2].startedAt > polls[1].startedAt
    /\ polls[2].outcome = "published"
    /\ lastWriter = 2
    /\ currentPrice = Num(500)

\* the accessories discoverDevices has restored or registered
Discovered ==
    IF phase = "launched"
    THEN registered \cup ({"uuid-PriceMonitor1"} \cap Range(accessories))
    ELSE {}

\* C17: every accessory discoverDevices restored or registered is among the
\* accessories updateAccessories notifies, a poll that published after the
\* launch has notified it, and no UUID has had more than one handler
\* constructed
C17_DiscoveredNotifiedOneHandler ==
    /\ Discovered \subseteq Range(accessories)
    /\ \A id \in 2..MaxPolls :
          Done(id) /\ polls[id].outcome \in {"published", "fallback"}
          => \A u \in Discovered : sink[u] # <<>>
    /\ \A u \in UUIDs : instances[u] <= 1

\* a JavaScript number, NaN included
IsNumber(x) == x # Null /\ x # Undefined /\ (IsNaN(x) \/ x.v \in Int)

\* C18: every price handed to updatePrice is a number, the step that hands
\* one over leaves that same number in currentPrice, and currentPrice, once
\* not null, is never null again
C18_NeverPublishesNull ==
    [][ /\ currentPrice # Null => currentPrice' # Null
        /\ \A u \in UUIDs :
              sink'[u] # sink[u]
              => /\ IsNumber(currentPrice')
                 /\ sink'[u] = Append(sink[u], currentPrice') ]_vars

\* a handler was given the initial poll's price, and the timer's poll failed
\* after it
C18_Witness ==
    /\ polls[1].outcome = "published"
    /\ FetchFailed(2)
    /\ sink["uuid-cached"] = <<currentPrice>>
    /\ currentPrice = Num(500)

\* C19: a poll that read the clock before the start of every slot of a
\* non-empty sequence selected the first slot of the sequence
C19_BeforeEverySlotSelectsEarliest ==
    \A id \in 1..MaxPolls :
        LET r == polls[id].result
        IN  /\ Done(id) /\ polls[id].outcome = "published"
            /\ r.slots # <<>>
            /\ \A i \in 1..Len(r.slots) : r.at < r.slots[i].start.v
            => r.slot = r.slots[1]

\* the number a sequence of decimal digits writes
RECURSIVE DigitsValue(_)
DigitsValue(ds) ==
    IF ds = <<>> THEN 0
    ELSE DigitsValue(SubSeq(ds, 1, Len(ds) - 1)) * 10 + ds[Len(ds)]

LeapYear(y) == (y % 4 = 0 /\ y % 100 # 0) \/ y % 400 = 0
MonthLengths(y) ==
    << 31, IF LeapYear(y) THEN 29 ELSE 28, 31, 30, 31, 30, 31, 31, 30, 31, 30, 31 >>
RECURSIVE DaysBeforeMonth(_, _)
DaysBeforeMonth(y, m) ==
    IF m = 1 THEN 0 ELSE DaysBeforeMonth(y, m - 1) + MonthLengths(y)[m - 1]
\* the leap years up to and including y
LeapYearsUpTo(y) == y \div 4 - y \div 100 + y \div 400
\* the days from 1970-01-01 to the first day of year y
DaysBeforeYear(y) == 365 * (y - 1970) + LeapYearsUpTo(y - 1) - LeapYearsUpTo(1969)

\* the instant "YYYYMMDDHHmm" names, as the day counted from 1970-01-01 and
\* the minute of that day; Null when the twelve digits name no date
EntsoeInstant(ds) ==
    LET y == DigitsValue(SubSeq(ds, 1, 4))
        m == DigitsValue(SubSeq(ds, 5, 6))
        d == DigitsValue(SubSeq(ds, 7, 8))
        h == DigitsValue(SubSeq(ds, 9, 10))
        mi == DigitsValue(SubSeq(ds, 11, 12))
    IN  IF /\ Len(ds) = 12
           /\ \A i \in 1..Len(ds) : ds[i] \in 0..9
           /\ m \in 1..12 /\ d \in 1..MonthLengths(y)[m]
           /\ h \in 0..23 /\ mi \in 0..59
        THEN [day |-> DaysBeforeYear(y) + DaysBeforeMonth(y, m) + d - 1,
              minute |-> h * 60 + mi]
        ELSE Null
\* the milliseconds from instant a (day, minute) to the clock reading t
MsFrom(a, t) ==
    (origin + t \div (24 * 60 * 60 * 1000) - a.day) * 24 * 60 * 60 * 1000
    + (t % (24 * 60 * 60 * 1000)) - a.minute * 60 * 1000

\* C20: the window of every request starts at 00:00 UTC of the UTC day of
\* the poll's start and ends exactly 48 hours after it, so the poll's start
\* lies in the window
C20_WindowIs48hFromUTCMidnight ==
    \A id \in 1..MaxPolls :
        polls[id].window # Null
        => LET start == EntsoeInstant(polls[id].window.start)
               end == EntsoeInstant(polls[id].window.end)
               t == polls[id].startedAt
           IN  /\ start # Null /\ end # Null
               /\ start.minute = 0
               /\ start.day = origin + t \div (24 * 60 * 60 * 1000)
               /\ (end.day - start.day) * 24 * 60 + end.minute - start.minute = 48 * 60
               /\ MsFrom(start, t) >= 0
               /\ MsFrom(end, t) < 0

\* a poll started in the last millisecond of the leap day 2028-02-29 asked
\* for 202802290000 to 202803020000
C20_Witness ==
    /\ polls[1].pc = "fetching"
    /\ polls[1].startedAt = 24 * 60 * 60 * 1000 - 1
    /\ polls[1].window = [start |-> <<2, 0, 2, 8, 0, 2, 2, 9, 0, 0, 0, 0>>,
                          end |-> <<2, 0, 2, 8, 0, 3, 0, 2, 0, 0, 0, 0>>]

====
